---- MODULE Spec2Model ----
(***************************************************************************)
(* A model of the haproxyconfigurator package: the configuration store     *)
(* (desiredConfig.listenIPs), its mutation API AddListener with the        *)
(* validation gate validate, and the text renderer Render.                 *)
(*                                                                         *)
(* Strings of the program are TLA+ strings.  Go compares and sorts strings *)
(* bytewise; StrBytes gives the bytes of every string the model sorts.     *)
(***************************************************************************)
EXTENDS Integers, Sequences, FiniteSets, TLC

VARIABLES
    listenIPs,          \* h.desiredConfig.listenIPs: IP -> (port -> listener)
    hlc,                \* the HaproxyListenerConfig of the latest AddListener call
    validationErrors,   \* hlc.validationErrors after that call
    result,             \* how the latest call ended
    config,             \* what the latest call appended to its config, when it
                        \* was Render: the operands of its +=, in order
    calls,              \* the AddListener calls ended so far, with their outcomes
    goroutines,         \* the AddListener call each calling goroutine is in:
                        \* its position, its copy of hlc and that copy's errors
    schedule            \* how the callers run: serialized or not, and which
                        \* calls were past line 75 together for one (IP, port)

vars ==
    <<listenIPs, hlc, validationErrors, result, config, calls, goroutines,
      schedule>>

(***************************************************************************)
(* Bounds and the input universe.                                          *)
(***************************************************************************)
\* The number of AddListener calls one run issues.
MaxCalls == 3

\* The number of goroutines that call AddListener on one store, one call
\* each.
MaxWriters == 2

Writers == 1..MaxWriters

IPs == {"10.0.0.1", "10.0.0.2"}
\* 80 < 443 as numbers, "443" < "80" as strings.
Ports == {80, 443}
Modes == {"http", "tcp", "ftp"}
Certificates == {"", "a.pem", "b.pem"}
Hostnames == {"a.com", "b.com"}
ListenerNames == {"web", "api"}

Server(name, ip, port) == [Name |-> name, IP |-> ip, Port |-> port]

Pool(name, balance, useSSL, verifySSL, servers) ==
    [Name |-> name, BalanceMethod |-> balance, UseSSL |-> useSSL,
     VerifySSL |-> verifySSL, Backends |-> servers]

\* Two servers listed out of name order, plain HTTP to the servers.
PoolA ==
    Pool("be1", "roundrobin", FALSE, FALSE,
         <<Server("n2", "10.0.0.6", 8080), Server("n1", "10.0.0.5", 8080)>>)
\* TLS to the servers without verification.
PoolB == Pool("be2", "leastconn", TRUE, FALSE, <<Server("n1", "10.0.0.5", 8443)>>)
\* A different pool carrying PoolA's name, TLS with verification.
PoolC == Pool("be1", "roundrobin", TRUE, TRUE, <<Server("n3", "10.0.0.7", 8443)>>)

BackendPools == {PoolA, PoolB, PoolC}

AllRequests ==
    [Name : ListenerNames, Backend : BackendPools, Hostname : Hostnames,
     ListenIP : IPs, ListenPort : Ports, Mode : Modes,
     SslCertificate : Certificates]

DefaultRequest ==
    [Name |-> "web", Backend |-> PoolA, Hostname |-> "a.com",
     ListenIP |-> "10.0.0.1", ListenPort |-> 80, Mode |-> "http",
     SslCertificate |-> ""]

RequestFields ==
    {"Name", "Backend", "Hostname", "ListenIP", "ListenPort", "Mode",
     "SslCertificate"}

\* The fields in which request r differs from DefaultRequest.
Changed(r) == {f \in RequestFields : r[f] # DefaultRequest[f]}

\* The requests a run may issue: DefaultRequest, every request that differs
\* from it in one field, every combination of mode and certificate and every
\* combination of hostname and certificate.
Requests ==
    {r \in AllRequests :
        \/ Cardinality(Changed(r)) <= 1
        \/ Changed(r) \subseteq {"Mode", "SslCertificate"}
        \/ Changed(r) \subseteq {"Hostname", "SslCertificate"}}

\* The zero value of HaproxyListenerConfig.
NoRequest ==
    [Name |-> "", Backend |-> Pool("", "", FALSE, FALSE, <<>>), Hostname |-> "",
     ListenIP |-> "", ListenPort |-> 0, Mode |-> "", SslCertificate |-> ""]

(***************************************************************************)
(* Go's maps.                                                              *)
(***************************************************************************)
EmptyMap == [k \in {} |-> k]

\* m[k] = v
MapSet(m, k, v) == (k :> v) @@ m

(***************************************************************************)
(* validate                                                                *)
(***************************************************************************)
InvalidModeMessage(mode) ==
    "Invalid mode (" \o mode \o ") specified - valid options 'http', 'tcp'"

ModeMismatchMessage == "Mode does not match on service"

SSLMismatchMessage == "SSL Certificate provided on a service that isn't using SSL"

ListenerExists(h, ip, port) ==
    /\ ip \in DOMAIN h
    /\ port \in DOMAIN h[ip]

addValidationError(errors, message) == Append(errors, message)

\* validate with the SSL check as its message words it: only a certificate
\* on a listener that does not use SSL is an error.
validate_OneWaySSL(h, r) ==
    LET badMode == r.Mode # "http" /\ r.Mode # "tcp"
        exists == ListenerExists(h, r.ListenIP, r.ListenPort)
        modeDiffers == exists /\ h[r.ListenIP][r.ListenPort].mode # r.Mode
        sslDiffers ==
            /\ exists
            /\ ~h[r.ListenIP][r.ListenPort].useSSL
            /\ r.SslCertificate # ""
        e1 == IF badMode THEN addValidationError(<<>>, InvalidModeMessage(r.Mode))
                         ELSE <<>>
        e2 == IF modeDiffers THEN addValidationError(e1, ModeMismatchMessage) ELSE e1
        e3 == IF sslDiffers THEN addValidationError(e2, SSLMismatchMessage) ELSE e2
    IN  [validated |-> ~badMode /\ ~modeDiffers /\ ~sslDiffers,
         validationErrors |-> e3]

\* validate without the check of lines 40-44.
validate_AnyMode(h, r) ==
    LET exists == ListenerExists(h, r.ListenIP, r.ListenPort)
        modeDiffers == exists /\ h[r.ListenIP][r.ListenPort].mode # r.Mode
        sslDiffers ==
            exists /\ h[r.ListenIP][r.ListenPort].useSSL # (r.SslCertificate # "")
        e2 == IF modeDiffers THEN addValidationError(<<>>, ModeMismatchMessage)
                             ELSE <<>>
        e3 == IF sslDiffers THEN addValidationError(e2, SSLMismatchMessage) ELSE e2
    IN  [validated |-> ~modeDiffers /\ ~sslDiffers, validationErrors |-> e3]

\* validate returning at the first check that fails.
validate_FirstErrorOnly(h, r) ==
    LET badMode == r.Mode # "http" /\ r.Mode # "tcp"
        exists == ListenerExists(h, r.ListenIP, r.ListenPort)
        modeDiffers == exists /\ h[r.ListenIP][r.ListenPort].mode # r.Mode
        sslDiffers ==
            exists /\ h[r.ListenIP][r.ListenPort].useSSL # (r.SslCertificate # "")
    IN  [validated |-> ~badMode /\ ~modeDiffers /\ ~sslDiffers,
         validationErrors |->
            IF badMode THEN addValidationError(<<>>, InvalidModeMessage(r.Mode))
            ELSE IF modeDiffers THEN addValidationError(<<>>, ModeMismatchMessage)
            ELSE IF sslDiffers THEN addValidationError(<<>>, SSLMismatchMessage)
            ELSE <<>>]

\* validate with a fourth check: the name of the request's backend must not
\* be the name of a different backend that the store holds.
validate_UniqueBackendNames(h, r) ==
    LET badMode == r.Mode # "http" /\ r.Mode # "tcp"
        exists == ListenerExists(h, r.ListenIP, r.ListenPort)
        modeDiffers == exists /\ h[r.ListenIP][r.ListenPort].mode # r.Mode
        sslDiffers ==
            exists /\ h[r.ListenIP][r.ListenPort].useSSL # (r.SslCertificate # "")
        nameTaken ==
            \E ip \in DOMAIN h : \E port \in DOMAIN h[ip] :
                \E k \in DOMAIN h[ip][port].hostnameBackends :
                    /\ h[ip][port].hostnameBackends[k].Name = r.Backend.Name
                    /\ h[ip][port].hostnameBackends[k] # r.Backend
        e1 == IF badMode THEN addValidationError(<<>>, InvalidModeMessage(r.Mode))
                         ELSE <<>>
        e2 == IF modeDiffers THEN addValidationError(e1, ModeMismatchMessage) ELSE e1
        e3 == IF sslDiffers THEN addValidationError(e2, SSLMismatchMessage) ELSE e2
        e4 == IF nameTaken THEN addValidationError(e3, "Backend name is in use")
                           ELSE e3
    IN  [validated |-> ~badMode /\ ~modeDiffers /\ ~sslDiffers /\ ~nameTaken,
         validationErrors |-> e4]

\* Lines 36-64.
validate(h, r) ==
    LET badMode == r.Mode # "http" /\ r.Mode # "tcp"
        exists == ListenerExists(h, r.ListenIP, r.ListenPort)
        modeDiffers == exists /\ h[r.ListenIP][r.ListenPort].mode # r.Mode
        sslDiffers ==
            exists /\ h[r.ListenIP][r.ListenPort].useSSL # (r.SslCertificate # "")
        e1 == IF badMode THEN addValidationError(<<>>, InvalidModeMessage(r.Mode))
                         ELSE <<>>
        e2 == IF modeDiffers THEN addValidationError(e1, ModeMismatchMessage) ELSE e1
        e3 == IF sslDiffers THEN addValidationError(e2, SSLMismatchMessage) ELSE e2
    IN  [validated |-> ~badMode /\ ~modeDiffers /\ ~sslDiffers,
         validationErrors |-> e3]

(***************************************************************************)
(* AddListener                                                             *)
(***************************************************************************)
\* NewListener with useSSL left at its zero value.
NewListener_NoSSL(r) ==
    [name |-> r.Name, mode |-> r.Mode, sslCertificates |-> <<>>,
     hostnameBackends |-> EmptyMap, useSSL |-> FALSE]

\* Lines 76-82.
NewListener(r) ==
    [name |-> r.Name, mode |-> r.Mode, sslCertificates |-> <<>>,
     hostnameBackends |-> EmptyMap, useSSL |-> (r.SslCertificate # "")]

\* Lines 71-73: the inner map of the request's IP is made when it is missing.
EnsureIP(h, r) ==
    IF r.ListenIP \in DOMAIN h THEN h ELSE MapSet(h, r.ListenIP, EmptyMap)

\* EnsureListener that gives a listener it finds the request's name.
EnsureListener_Renaming(h, r) ==
    IF r.ListenPort \in DOMAIN h[r.ListenIP]
    THEN MapSet(h, r.ListenIP,
                MapSet(h[r.ListenIP], r.ListenPort,
                       [h[r.ListenIP][r.ListenPort] EXCEPT !.name = r.Name]))
    ELSE MapSet(h, r.ListenIP, MapSet(h[r.ListenIP], r.ListenPort, NewListener(r)))

\* Lines 75-83: the listener is made when the port has none.
EnsureListener(h, r) ==
    IF r.ListenPort \in DOMAIN h[r.ListenIP]
    THEN h
    ELSE MapSet(h, r.ListenIP, MapSet(h[r.ListenIP], r.ListenPort, NewListener(r)))

\* PortFree without the lookup of line 75.
PortFree_Always(h, r) == TRUE

\* Line 75: no listener at the request's port.
PortFree(h, r) == r.ListenPort \notin DOMAIN h[r.ListenIP]

\* DuplicateTCP without the panic.
DuplicateTCP_Never(h, r) == FALSE

\* Lines 84-90: the port already has a listener and the request is tcp.
DuplicateTCP(h, r) ==
    /\ r.ListenPort \in DOMAIN h[r.ListenIP]
    /\ r.Mode = "tcp"

\* Lines 92-94.
AppendCertificate(listener, r) ==
    IF r.SslCertificate # ""
    THEN [listener EXCEPT !.sslCertificates = Append(@, r.SslCertificate)]
    ELSE listener

\* HostnameKey without the rewrite of lines 96-98.
HostnameKey_AsGiven(r) == r.Hostname

\* Lines 96-98.
HostnameKey(r) == IF r.Mode = "tcp" THEN "_" ELSE r.Hostname

\* StoreBackend that stores the backends of http requests only.
StoreBackend_HttpOnly(listener, r) ==
    IF r.Mode = "http"
    THEN [listener EXCEPT
            !.hostnameBackends = MapSet(@, r.Hostname, r.Backend)]
    ELSE listener

\* StoreBackend that keeps the backend a hostname key already has.
StoreBackend_KeepFirst(listener, r) ==
    IF HostnameKey(r) \in DOMAIN listener.hostnameBackends
    THEN listener
    ELSE [listener EXCEPT
            !.hostnameBackends = MapSet(@, HostnameKey(r), r.Backend)]

\* Line 99.
StoreBackend(listener, r) ==
    [listener EXCEPT
        !.hostnameBackends = MapSet(@, HostnameKey(r), r.Backend)]

\* Lines 92-99 on the listener at the request's (IP, port).
Merge(h, r) ==
    LET listener == h[r.ListenIP][r.ListenPort]
        merged == StoreBackend(AppendCertificate(listener, r), r)
    IN  MapSet(h, r.ListenIP, MapSet(h[r.ListenIP], r.ListenPort, merged))

\* AddListener with lines 71-73 moved before the call of validate.
AddListenerResult_EarlyIP(h, r) ==
    LET v == validate(h, r)
        h1 == EnsureIP(h, r)
    IN  IF ~v.validated
        THEN [listenIPs |-> h1, result |-> "rejected",
              validationErrors |-> v.validationErrors]
        ELSE IF DuplicateTCP(h1, r)
        THEN [listenIPs |-> h1, result |-> "fatal",
              validationErrors |-> v.validationErrors]
        ELSE [listenIPs |-> Merge(EnsureListener(h1, r), r), result |-> "accepted",
              validationErrors |-> v.validationErrors]

\* AddListener with lines 92-94 moved before the check of lines 84-90.
AddListenerResult_CertificateFirst(h, r) ==
    LET v == validate(h, r)
        h1 == EnsureIP(h, r)
    IN  IF ~v.validated
        THEN [listenIPs |-> h, result |-> "rejected",
              validationErrors |-> v.validationErrors]
        ELSE IF DuplicateTCP(h1, r)
        THEN [listenIPs |->
                MapSet(h1, r.ListenIP,
                       MapSet(h1[r.ListenIP], r.ListenPort,
                              AppendCertificate(h1[r.ListenIP][r.ListenPort], r))),
              result |-> "fatal", validationErrors |-> v.validationErrors]
        ELSE [listenIPs |-> Merge(EnsureListener(h1, r), r), result |-> "accepted",
              validationErrors |-> v.validationErrors]

\* The whole call on store h: the store it leaves, how it ended, and the
\* request's validationErrors.  "fatal" is the panic of line 88.
AddListenerResult(h, r) ==
    LET v == validate(h, r)
        h1 == EnsureIP(h, r)
    IN  IF ~v.validated
        THEN [listenIPs |-> h, result |-> "rejected",
              validationErrors |-> v.validationErrors]
        ELSE IF DuplicateTCP(h1, r)
        THEN [listenIPs |-> h1, result |-> "fatal",
              validationErrors |-> v.validationErrors]
        ELSE [listenIPs |-> Merge(EnsureListener(h1, r), r), result |-> "accepted",
              validationErrors |-> v.validationErrors]

(***************************************************************************)
(* Sorting, as package sort does it.                                       *)
(***************************************************************************)
\* The bytes of the strings the program sorts.
StrBytes ==
    ("" :> <<>>)
    @@ ("_" :> <<95>>)
    @@ ("10.0.0.1" :> <<49, 48, 46, 48, 46, 48, 46, 49>>)
    @@ ("10.0.0.2" :> <<49, 48, 46, 48, 46, 48, 46, 50>>)
    @@ ("a.com" :> <<97, 46, 99, 111, 109>>)
    @@ ("b.com" :> <<98, 46, 99, 111, 109>>)
    @@ ("a.pem" :> <<97, 46, 112, 101, 109>>)
    @@ ("b.pem" :> <<98, 46, 112, 101, 109>>)
    @@ ("n1" :> <<110, 49>>)
    @@ ("n2" :> <<110, 50>>)
    @@ ("n3" :> <<110, 51>>)

RECURSIVE BytesLess(_, _)
\* a < b on byte sequences: lexicographic, a proper prefix first.
BytesLess(a, b) ==
    IF b = <<>> THEN FALSE
    ELSE IF a = <<>> THEN TRUE
    ELSE IF Head(a) # Head(b) THEN Head(a) < Head(b)
    ELSE BytesLess(Tail(a), Tail(b))

\* Go's a < b on strings.
StringLess(a, b) == BytesLess(StrBytes[a], StrBytes[b])

Front(s) == SubSeq(s, 1, Len(s) - 1)

Last(s) == s[Len(s)]

RECURSIVE InsertString(_, _)
\* One pass of the insertion sort: x moves left while it is less than its
\* left neighbour.
InsertString(sorted, x) ==
    IF sorted = <<>> \/ ~StringLess(x, Last(sorted))
    THEN Append(sorted, x)
    ELSE Append(InsertString(Front(sorted), x), Last(sorted))

\* sort.Strings left out.
SortStrings_None(s) == s

RECURSIVE SortStrings(_)
\* sort.Strings on a slice.
SortStrings(s) ==
    IF s = <<>> THEN <<>> ELSE InsertString(SortStrings(Front(s)), Last(s))

RECURSIVE InsertServer(_, _)
InsertServer(sorted, x) ==
    IF sorted = <<>> \/ ~StringLess(x.Name, Last(sorted).Name)
    THEN Append(sorted, x)
    ELSE Append(InsertServer(Front(sorted), x), Last(sorted))

\* Line 186 reversing the slice in place instead of sorting it.
SortServers_Reversing(s) == [i \in DOMAIN s |-> s[Len(s) + 1 - i]]

RECURSIVE SortServers(_)
\* Line 186: sort.Slice by server name (an insertion sort below 12 elements).
SortServers(s) ==
    IF s = <<>> THEN <<>> ELSE InsertServer(SortServers(Front(s)), Last(s))

RECURSIVE KeysInOrder(_)
\* The keys of a string-keyed map, collected and passed to sort.Strings: the
\* map's iteration order does not show in the result, the keys being distinct.
KeysInOrder(keys) ==
    IF keys = {} THEN <<>>
    ELSE LET least == CHOOSE k \in keys : \A o \in keys \ {k} : StringLess(k, o)
         IN  <<least>> \o KeysInOrder(keys \ {least})

\* Lines 125-132.
sortBackendMap(inner) == KeysInOrder(DOMAIN inner)

RECURSIVE PortsInOrder(_)
PortsInOrder(ports) ==
    IF ports = {} THEN <<>>
    ELSE LET least == CHOOSE p \in ports : \A o \in ports \ {p} : p < o
         IN  <<least>> \o PortsInOrder(ports \ {least})

RECURSIVE PortsInTextOrder(_)
PortsInTextOrder(ports) ==
    LET text == (80 :> <<56, 48>>) @@ (443 :> <<52, 52, 51>>)
    IN  IF ports = {} THEN <<>>
        ELSE LET least == CHOOSE p \in ports :
                            \A o \in ports \ {p} : BytesLess(text[p], text[o])
             IN  <<least>> \o PortsInTextOrder(ports \ {least})

\* sortListenerMap comparing the ports as their decimal strings.
sortListenerMap_AsText(inner) == PortsInTextOrder(DOMAIN inner)

\* Lines 117-124: the ports in ascending numeric order.
sortListenerMap(inner) == PortsInOrder(DOMAIN inner)

(***************************************************************************)
(* Render                                                                  *)
(***************************************************************************)
Digits == <<"0", "1", "2", "3", "4", "5", "6", "7", "8", "9">>

RECURSIVE Itoa(_)
\* strconv.Itoa of a number that is not negative.
Itoa(n) ==
    IF n < 10 THEN Digits[n + 1] ELSE Itoa(n \div 10) \o Digits[(n % 10) + 1]

RECURSIVE CrtPieces_NoDedup(_, _)
\* CrtPieces without the comparison of line 147.
CrtPieces_NoDedup(certificates, previous) ==
    IF certificates = <<>> THEN <<>>
    ELSE <<" crt ", Head(certificates)>>
         \o CrtPieces_NoDedup(Tail(certificates), Head(certificates))

RECURSIVE CrtPieces_PreviousUnset(_, _)
\* CrtPieces without the assignment of line 149: previous stays "".
CrtPieces_PreviousUnset(certificates, previous) ==
    IF certificates = <<>> THEN <<>>
    ELSE IF previous # Head(certificates)
    THEN <<" crt ", Head(certificates)>>
         \o CrtPieces_PreviousUnset(Tail(certificates), previous)
    ELSE CrtPieces_PreviousUnset(Tail(certificates), previous)

RECURSIVE CrtPieces(_, _)
\* Lines 144-151: one crt per certificate that differs from the one before.
CrtPieces(certificates, previous) ==
    IF certificates = <<>> THEN <<>>
    ELSE IF previous # Head(certificates)
    THEN <<" crt ", Head(certificates)>>
         \o CrtPieces(Tail(certificates), Head(certificates))
    ELSE CrtPieces(Tail(certificates), previous)

RECURSIVE UseBackendPieces_NoPortRule(_, _, _)
\* UseBackendPieces without line 164.
UseBackendPieces_NoPortRule(listener, port, hostnames) ==
    IF hostnames = <<>> THEN <<>>
    ELSE LET hostname == Head(hostnames)
             backend == listener.hostnameBackends[hostname]
         IN  <<"    # Set up backend selection for ", hostname, "\n",
               "    use_backend ", backend.Name, " if { hdr(host) -i ", hostname,
               " }\n">>
             \o UseBackendPieces_NoPortRule(listener, port, Tail(hostnames))

RECURSIVE UseBackendPieces(_, _, _)
\* Lines 160-165 over the sorted hostnames.
UseBackendPieces(listener, port, hostnames) ==
    IF hostnames = <<>> THEN <<>>
    ELSE LET hostname == Head(hostnames)
             backend == listener.hostnameBackends[hostname]
         IN  <<"    # Set up backend selection for ", hostname, "\n",
               "    use_backend ", backend.Name, " if { hdr(host) -i ", hostname,
               " }\n",
               "    use_backend ", backend.Name, " if { hdr(host) -i ", hostname,
               ":", Itoa(port), " }\n">>
             \o UseBackendPieces(listener, port, Tail(hostnames))

\* Line 168 dereferences hostnameBackends["_"]: a nil pointer when the key is
\* missing.
ListenerPanics(listener) ==
    /\ listener.mode = "tcp"
    /\ "_" \notin DOMAIN listener.hostnameBackends

\* Lines 138-170: the operands appended to config for one listener, in order.
FrontendPieces(listenIP, port, listener) ==
    <<"frontend ", listener.name, "\n",
      "    mode ", listener.mode, "\n",
      "    bind ", listenIP, ":", Itoa(port)>>
    \o (IF listener.useSSL
        THEN <<" ssl">>
             \o CrtPieces(SortStrings(listener.sslCertificates), "")
             \o <<"\n">>
             \o (IF listener.mode = "http"
                 THEN <<"    reqadd x-forwarded-proto:\\ https">>
                 ELSE <<>>)
        ELSE <<>>)
    \o <<"\n", "\n">>
    \o (IF listener.mode = "http"
        THEN UseBackendPieces(listener, port,
                              sortBackendMap(listener.hostnameBackends))
        ELSE IF listener.mode = "tcp" /\ ~ListenerPanics(listener)
        THEN <<"    # Set up default_backend\n",
               "    default_backend ", listener.hostnameBackends["_"].Name, "\n">>
        ELSE <<>>)
    \o <<"\n">>

RECURSIVE ServerPieces(_, _)
\* Lines 187-197 over the sorted servers.
ServerPieces(backend, servers) ==
    IF servers = <<>> THEN <<>>
    ELSE LET backendServer == Head(servers)
         IN  <<"    server ", backendServer.Name, " ", backendServer.IP, ":",
               Itoa(backendServer.Port), " check">>
             \o (IF backend.UseSSL
                 THEN <<" ssl">>
                      \o (IF ~backend.VerifySSL THEN <<" verify none">> ELSE <<>>)
                 ELSE <<>>)
             \o <<"\n">>
             \o ServerPieces(backend, Tail(servers))

\* Lines 180-198: the operands appended to config for one backend.
BackendPieces(listener, name) ==
    LET backend == listener.hostnameBackends[name]
    IN  <<"backend ", backend.Name, "\n",
          "    mode ", listener.mode, "\n",
          "    balance ", backend.BalanceMethod, "\n",
          "\n",
          "    # Backend Servers\n">>
        \o ServerPieces(backend, SortServers(backend.Backends))
        \o <<"\n">>

RECURSIVE BackendsOfListener(_, _)
BackendsOfListener(listener, names) ==
    IF names = <<>> THEN <<>>
    ELSE BackendPieces(listener, Head(names))
         \o BackendsOfListener(listener, Tail(names))

RECURSIVE FrontendsOfIP(_, _, _)
\* Lines 136-171 over the sorted ports of one IP.
FrontendsOfIP(h, listenIP, ports) ==
    IF ports = <<>> THEN <<>>
    ELSE FrontendPieces(listenIP, Head(ports), h[listenIP][Head(ports)])
         \o FrontendsOfIP(h, listenIP, Tail(ports))

RECURSIVE BackendsOfIP(_, _, _)
\* Lines 177-200 over the sorted ports of one IP.
BackendsOfIP(h, listenIP, ports) ==
    IF ports = <<>> THEN <<>>
    ELSE LET listener == h[listenIP][Head(ports)]
         IN  BackendsOfListener(listener,
                                sortBackendMap(listener.hostnameBackends))
             \o BackendsOfIP(h, listenIP, Tail(ports))

RECURSIVE FrontEnds(_, _)
\* Lines 134-172.
FrontEnds(h, ips) ==
    IF ips = <<>> THEN <<>>
    ELSE FrontendsOfIP(h, Head(ips), sortListenerMap(h[Head(ips)]))
         \o FrontEnds(h, Tail(ips))

RECURSIVE BackEnds(_, _)
\* Lines 175-201.
BackEnds(h, ips) ==
    IF ips = <<>> THEN <<>>
    ELSE BackendsOfIP(h, Head(ips), sortListenerMap(h[Head(ips)]))
         \o BackEnds(h, Tail(ips))

\* Every operand Render appends to config, in order.
RenderPieces(h) ==
    LET ips == KeysInOrder(DOMAIN h)
    IN  FrontEnds(h, ips) \o BackEnds(h, ips)

RECURSIVE Concat(_)
\* The pieces joined into one string, left to right.
Concat(pieces) ==
    IF pieces = <<>> THEN ""
    ELSE IF Len(pieces) = 1 THEN pieces[1]
    ELSE LET half == Len(pieces) \div 2
         IN  Concat(SubSeq(pieces, 1, half))
             \o Concat(SubSeq(pieces, half + 1, Len(pieces)))

\* The string Render returns on store h.
RenderString(h) == Concat(RenderPieces(h))

\* Render returns the same string on stores g and h: the same operands give
\* the same string, and other operands are joined and compared.
SameRendering(g, h) ==
    \/ RenderPieces(g) = RenderPieces(h)
    \/ RenderString(g) = RenderString(h)

\* Render fails when it visits a listener that makes line 168 panic.
RenderPanics(h) ==
    \E ip \in DOMAIN h : \E port \in DOMAIN h[ip] : ListenerPanics(h[ip][port])

\* Lines 142, 145 and 186 sort in place: the listener as Render leaves it.
RenderedListener(listener) ==
    [listener EXCEPT
        !.sslCertificates = IF listener.useSSL THEN SortStrings(@) ELSE @,
        !.hostnameBackends =
            [name \in DOMAIN @ |-> [@[name] EXCEPT !.Backends = SortServers(@)]]]

\* The store as Render leaves it.
RenderedStore(h) ==
    [ip \in DOMAIN h |-> [port \in DOMAIN h[ip] |-> RenderedListener(h[ip][port])]]

(***************************************************************************)
(* The state machine.                                                      *)
(***************************************************************************)
\* A goroutine that has not called AddListener.
NoCall == [pc |-> "idle", hlc |-> NoRequest, validationErrors |-> <<>>]

\* Initialize: an empty store.
Init ==
    /\ listenIPs = EmptyMap
    /\ hlc = NoRequest
    /\ validationErrors = <<>>
    /\ result = "initialized"
    /\ config = <<>>
    /\ calls = <<>>
    /\ goroutines = [g \in Writers |-> NoCall]
    /\ schedule = [serialized |-> TRUE, raced |-> {}]

\* A panic or a runtime throw ends the process: nothing runs after it.
Running == result \notin {"fatal", "renderPanic", "nilPanic", "throw"}

AddListener(r) ==
    /\ Running
    /\ Len(calls) < MaxCalls
    /\ LET res == AddListenerResult(listenIPs, r)
       IN  /\ listenIPs' = res.listenIPs
           /\ result' = res.result
           /\ validationErrors' = res.validationErrors
           /\ calls' = Append(calls, [request |-> r, result |-> res.result])
    /\ hlc' = r
    /\ config' = <<>>
    /\ UNCHANGED <<goroutines, schedule>>

\* A panic inside Render ends the process with the store as it was.
Render ==
    /\ Running
    /\ IF RenderPanics(listenIPs)
       THEN /\ result' = "renderPanic"
            /\ config' = <<>>
            /\ listenIPs' = listenIPs
       ELSE /\ result' = "rendered"
            /\ config' = RenderPieces(listenIPs)
            /\ listenIPs' = RenderedStore(listenIPs)
    /\ UNCHANGED <<hlc, validationErrors, calls, goroutines, schedule>>

Next ==
    \/ \E r \in Requests : AddListener(r)
    \/ Render

Spec == Init /\ [][Next]_vars

\* The requests of the runs whose calls are replayed in every order: the
\* requests that differ from DefaultRequest in at most one field, without
\* the ftp request and the one on the other IP.
OrderRequests ==
    {r \in Requests :
        /\ Cardinality(Changed(r)) <= 1
        /\ r.Mode # "ftp"
        /\ r.ListenIP = DefaultRequest.ListenIP}

NextOrder ==
    \/ \E r \in OrderRequests : AddListener(r)
    \/ Render

SpecOrder == Init /\ [][NextOrder]_vars

(***************************************************************************)
(* AddListener called from several goroutines.  The code takes no lock, so *)
(* the statements of two calls interleave; a call is cut where it reads or *)
(* writes the store.  When a map write of one call overlaps a map access   *)
(* of another, the Go runtime may end the process ("concurrent map         *)
(* writes", "concurrent map read and map write"): Throw.                   *)
(***************************************************************************)
\* The requests the goroutines call with: two tcp requests on one
\* (IP, port) that differ in Name and Backend, a tcp request with a
\* certificate and an http request on that (IP, port).
WriterRequests ==
    {[DefaultRequest EXCEPT !.Mode = "tcp"],
     [DefaultRequest EXCEPT !.Mode = "tcp", !.Name = "api", !.Backend = PoolB],
     [DefaultRequest EXCEPT !.Mode = "tcp", !.SslCertificate = "a.pem"],
     DefaultRequest}

InitConcurrent ==
    /\ listenIPs = EmptyMap
    /\ hlc = NoRequest
    /\ validationErrors = <<>>
    /\ result = "initialized"
    /\ config = <<>>
    /\ calls = <<>>
    /\ goroutines = [g \in Writers |-> NoCall]
    /\ schedule \in [serialized : BOOLEAN, raced : {{}}]

InFlight(g) == goroutines[g].pc \notin {"idle", "done"}

\* Goroutine g moves to position pc.
Goto(g, pc) == goroutines' = [goroutines EXCEPT ![g].pc = pc]

\* The call of goroutine g ends with outcome res, its hlc holding errors.
Return(g, res, errors) ==
    /\ result' = res
    /\ hlc' = goroutines[g].hlc
    /\ validationErrors' = errors
    /\ calls' = Append(calls, [request |-> goroutines[g].hlc, result |-> res])
    /\ config' = <<>>

\* The listener at the request's (IP, port) assigned.
SetListener(h, r, listener) ==
    MapSet(h, r.ListenIP, MapSet(h[r.ListenIP], r.ListenPort, listener))

\* Line 67: goroutine g calls AddListener(r).  Serialized callers start a
\* call only when no other call is in flight.
Call(g, r) ==
    /\ Running
    /\ goroutines[g].pc = "idle"
    /\ schedule.serialized => \A o \in Writers : ~InFlight(o)
    /\ goroutines' =
        [goroutines EXCEPT ![g] = [pc |-> "validate", hlc |-> r,
                                   validationErrors |-> <<>>]]
    /\ UNCHANGED <<listenIPs, hlc, validationErrors, result, config, calls,
                   schedule>>

\* Lines 70 and 100-105.
Validate(g) ==
    /\ Running
    /\ goroutines[g].pc = "validate"
    /\ LET v == validate(listenIPs, goroutines[g].hlc)
       IN  /\ goroutines' =
                [goroutines EXCEPT
                    ![g].validationErrors = v.validationErrors,
                    ![g].pc = IF v.validated THEN "checkIP" ELSE "done"]
           /\ IF v.validated
              THEN UNCHANGED <<hlc, validationErrors, result, config, calls>>
              ELSE Return(g, "rejected", v.validationErrors)
    /\ UNCHANGED <<listenIPs, schedule>>

\* Line 71.
CheckIP(g) ==
    /\ Running
    /\ goroutines[g].pc = "checkIP"
    /\ Goto(g, IF goroutines[g].hlc.ListenIP \in DOMAIN listenIPs
               THEN "checkPort" ELSE "makeIP")
    /\ UNCHANGED <<listenIPs, hlc, validationErrors, result, config, calls,
                   schedule>>

\* Line 72.
MakeIP(g) ==
    /\ Running
    /\ goroutines[g].pc = "makeIP"
    /\ listenIPs' = MapSet(listenIPs, goroutines[g].hlc.ListenIP, EmptyMap)
    /\ Goto(g, "checkPort")
    /\ UNCHANGED <<hlc, validationErrors, result, config, calls, schedule>>

\* The goroutines other than g that are past line 75 for the (IP, port) of
\* g's request and have not inserted their listener.
AlsoInserting(g) ==
    {o \in Writers \ {g} :
        /\ goroutines[o].pc = "insert"
        /\ goroutines[o].hlc.ListenIP = goroutines[g].hlc.ListenIP
        /\ goroutines[o].hlc.ListenPort = goroutines[g].hlc.ListenPort}

\* Line 75.
CheckPort(g) ==
    /\ Running
    /\ goroutines[g].pc = "checkPort"
    /\ IF PortFree(listenIPs, goroutines[g].hlc)
       THEN /\ Goto(g, "insert")
            /\ schedule' =
                [schedule EXCEPT !.raced = @ \cup {{g, o} : o \in AlsoInserting(g)}]
       ELSE /\ Goto(g, "duplicate")
            /\ UNCHANGED schedule
    /\ UNCHANGED <<listenIPs, hlc, validationErrors, result, config, calls>>

\* Lines 76-83.
Insert(g) ==
    /\ Running
    /\ goroutines[g].pc = "insert"
    /\ LET r == goroutines[g].hlc
       IN  listenIPs' = SetListener(listenIPs, r, NewListener(r))
    /\ Goto(g, "cert")
    /\ UNCHANGED <<hlc, validationErrors, result, config, calls, schedule>>

\* Lines 84-90.
Duplicate(g) ==
    /\ Running
    /\ goroutines[g].pc = "duplicate"
    /\ IF goroutines[g].hlc.Mode = "tcp"
       THEN /\ Goto(g, "done")
            /\ Return(g, "fatal", goroutines[g].validationErrors)
       ELSE /\ Goto(g, "cert")
            /\ UNCHANGED <<hlc, validationErrors, result, config, calls>>
    /\ UNCHANGED <<listenIPs, schedule>>

\* Lines 92-94.  The listener is read from the map again: it is nil when
\* another call has replaced the inner map, and its field cannot be read.
Certificate(g) ==
    /\ Running
    /\ goroutines[g].pc = "cert"
    /\ LET r == goroutines[g].hlc
       IN  IF r.SslCertificate = ""
           THEN /\ Goto(g, "store")
                /\ UNCHANGED <<listenIPs, hlc, validationErrors, result, config,
                               calls>>
           ELSE IF ~ListenerExists(listenIPs, r.ListenIP, r.ListenPort)
           THEN /\ Goto(g, "done")
                /\ Return(g, "nilPanic", goroutines[g].validationErrors)
                /\ UNCHANGED listenIPs
           ELSE /\ listenIPs' = SetListener(listenIPs, r,
                                          AppendCertificate(listenIPs[r.ListenIP][r.ListenPort], r))
                /\ Goto(g, "store")
                /\ UNCHANGED <<hlc, validationErrors, result, config, calls>>
    /\ UNCHANGED schedule

\* Lines 96-99, and the return.
Store(g) ==
    /\ Running
    /\ goroutines[g].pc = "store"
    /\ LET r == goroutines[g].hlc
       IN  IF ~ListenerExists(listenIPs, r.ListenIP, r.ListenPort)
           THEN /\ Return(g, "nilPanic", goroutines[g].validationErrors)
                /\ UNCHANGED listenIPs
           ELSE /\ listenIPs' = SetListener(listenIPs, r,
                                          StoreBackend(listenIPs[r.ListenIP][r.ListenPort], r))
                /\ Return(g, "accepted", goroutines[g].validationErrors)
    /\ Goto(g, "done")
    /\ UNCHANGED schedule

\* The maps the next statement of goroutine g writes: listenIPs, the inner
\* map of an IP, the hostnameBackends of an (IP, port).
MapsWritten(g) ==
    LET r == goroutines[g].hlc
    IN  CASE goroutines[g].pc = "makeIP" -> {<<"listenIPs">>}
          [] goroutines[g].pc = "insert" -> {<<"inner", r.ListenIP>>}
          [] goroutines[g].pc = "store" ->
                {<<"hostnameBackends", r.ListenIP, r.ListenPort>>}
          [] OTHER -> {}

\* The maps the next statement of goroutine g reads.
MapsRead(g) ==
    LET r == goroutines[g].hlc
        outer == {<<"listenIPs">>}
        both == {<<"listenIPs">>, <<"inner", r.ListenIP>>}
    IN  CASE goroutines[g].pc = "validate" -> both
          [] goroutines[g].pc = "checkIP" -> outer
          [] goroutines[g].pc = "checkPort" -> both
          [] goroutines[g].pc = "insert" -> outer
          [] goroutines[g].pc = "cert" -> IF r.SslCertificate = "" THEN {} ELSE both
          [] goroutines[g].pc = "store" -> both
          [] OTHER -> {}

\* The runtime finds the map write of goroutine g overlapping a map access
\* of another goroutine and ends the process.
Throw(g) ==
    /\ Running
    /\ \E o \in Writers \ {g} :
        MapsWritten(g) \cap (MapsRead(o) \cup MapsWritten(o)) # {}
    /\ result' = "throw"
    /\ UNCHANGED <<listenIPs, hlc, validationErrors, config, calls, goroutines,
                   schedule>>

NextConcurrent ==
    \E g \in Writers :
        \/ \E r \in WriterRequests : Call(g, r)
        \/ Validate(g)
        \/ CheckIP(g)
        \/ MakeIP(g)
        \/ CheckPort(g)
        \/ Insert(g)
        \/ Duplicate(g)
        \/ Certificate(g)
        \/ Store(g)
        \/ Throw(g)

SpecConcurrent == InitConcurrent /\ [][NextConcurrent]_vars

(***************************************************************************)
(* What the claims are stated with.                                        *)
(***************************************************************************)
Range(s) == {s[i] : i \in 1..Len(s)}

\* A step that is an AddListener call; hlc' is its request.
AddStep == Len(calls') = Len(calls) + 1

\* A step that is a Render call.
RenderStep == calls' = calls /\ result' \in {"rendered", "renderPanic"}

\* The (IP, port) pairs that hold a listener in store h.
Slots(h) == {s \in IPs \X Ports : ListenerExists(h, s[1], s[2])}

ListenerAt(h, r) == h[r.ListenIP][r.ListenPort]

UsesSSL(r) == r.SslCertificate # ""

\* The requests accepted so far on the (IP, port) of slot s.
AcceptedOn(s) ==
    {c.request : c \in {d \in Range(calls) :
        /\ d.result = "accepted"
        /\ d.request.ListenIP = s[1]
        /\ d.request.ListenPort = s[2]}}

(***************************************************************************)
(* C1.  Atomic reject: an AddListener call whose request fails validation  *)
(* (its mode is neither http nor tcp, or a listener exists at its          *)
(* (IP, port) whose mode or SSL usage differs from the request's) ends     *)
(* rejected and leaves the store exactly as it was.  What a later call     *)
(* does depends on the store and its own request alone, so it runs as if   *)
(* the rejected call had not been issued.                                  *)
(***************************************************************************)
FailsValidation(h, r) ==
    \/ r.Mode \notin {"http", "tcp"}
    \/ /\ ListenerExists(h, r.ListenIP, r.ListenPort)
       /\ \/ ListenerAt(h, r).mode # r.Mode
          \/ ListenerAt(h, r).useSSL # UsesSSL(r)

C1_AtomicReject ==
    [][(AddStep /\ FailsValidation(listenIPs, hlc'))
        => (result' = "rejected" /\ listenIPs' = listenIPs)]_vars

\* A request rejected with two errors against a store that holds listeners.
C1_Witness ==
    /\ result = "rejected"
    /\ Len(validationErrors) >= 2
    /\ listenIPs # EmptyMap

(***************************************************************************)
(* C2.  As claimed: whenever a tcp request targets an (IP, port) that a    *)
(* tcp listener occupies, AddListener takes the fatal path.                *)
(***************************************************************************)
TcpOnTcp(h, r) ==
    /\ r.Mode = "tcp"
    /\ ListenerExists(h, r.ListenIP, r.ListenPort)
    /\ ListenerAt(h, r).mode = "tcp"

C2_DuplicateTcpAlwaysFatal ==
    [][(AddStep /\ TcpOnTcp(listenIPs, hlc')) => result' = "fatal"]_vars

(***************************************************************************)
(* C2, amended.  A tcp request on an (IP, port) that a tcp listener        *)
(* occupies takes the fatal path when its SSL usage equals the listener's  *)
(* useSSL; when it differs, validation rejects the request with the SSL    *)
(* mismatch error alone and the store is unchanged.                        *)
(***************************************************************************)
C2_DuplicateTcpFatal ==
    [][(AddStep /\ TcpOnTcp(listenIPs, hlc'))
        => IF ListenerAt(listenIPs, hlc').useSSL = UsesSSL(hlc')
           THEN result' = "fatal"
           ELSE /\ result' = "rejected"
                /\ validationErrors' = <<SSLMismatchMessage>>
                /\ listenIPs' = listenIPs]_vars

\* The second of two tcp requests on one (IP, port) has panicked.
C2_Witness ==
    /\ result = "fatal"
    /\ hlc.Mode = "tcp"
    /\ ListenerAt(listenIPs, hlc).mode = "tcp"

(***************************************************************************)
(* C3.  As claimed: adding the request just added once more never takes    *)
(* the fatal path and leaves the rendered output as it was.                *)
(***************************************************************************)
\* The step adds again the request of the call right before it.
AddedAgain ==
    /\ AddStep
    /\ result \in {"accepted", "rejected"}
    /\ hlc' = hlc

C3_IdempotentAnyMode ==
    [][AddedAgain
        => /\ result' # "fatal"
           /\ SameRendering(listenIPs', listenIPs)]_vars

(***************************************************************************)
(* C3, amended.  Adding the request just added once more: when the first   *)
(* call was rejected, or accepted with mode http, the second call ends as  *)
(* the first did and the rendered output is as after the first; when the   *)
(* first call was accepted with mode tcp, the second takes the fatal path  *)
(* and the store is as after the first.                                    *)
(***************************************************************************)
C3_IdempotentMerge ==
    [][AddedAgain
        => IF result = "accepted" /\ hlc.Mode = "tcp"
           THEN result' = "fatal" /\ listenIPs' = listenIPs
           ELSE /\ result' = result
                /\ SameRendering(listenIPs', listenIPs)]_vars

\* An http request with a certificate accepted twice in a row, on a store
\* that an earlier call filled.
C3_Witness ==
    /\ Len(calls) = 3
    /\ calls[2] = calls[3]
    /\ calls[1].result = "accepted"
    /\ calls[3].result = "accepted"
    /\ UsesSSL(calls[3].request)
    /\ result = "accepted"

(***************************************************************************)
(* C4.  As claimed: the calls issued so far, replayed on an empty store in *)
(* any order that gives every request the outcome it had, render to the    *)
(* string the store renders to.                                            *)
(***************************************************************************)
RECURSIVE Replay(_, _)
\* The requests added in order to store h: the store and the outcomes.
Replay(h, requests) ==
    IF requests = <<>> THEN [listenIPs |-> h, results |-> <<>>]
    ELSE LET first == AddListenerResult(h, Head(requests))
             rest == Replay(first.listenIPs, Tail(requests))
         IN  [listenIPs |-> rest.listenIPs,
              results |-> <<first.result>> \o rest.results]

Orders(n) == {p \in [1..n -> 1..n] : \A i, j \in 1..n : p[i] = p[j] => i = j}

\* The requests of calls in order p, replayed on an empty store.
Reordered(p) == Replay(EmptyMap, [i \in 1..Len(calls) |-> calls[p[i]].request])

\* In order p, with replay rp, no call panics and every request ends as it
\* did.
SameOutcomes(p, rp) ==
    \A i \in 1..Len(calls) :
        /\ calls[p[i]].result \in {"accepted", "rejected"}
        /\ rp.results[i] = calls[p[i]].result

C4_OrderIndependent ==
    \A p \in Orders(Len(calls)) :
        LET rp == Reordered(p)
        IN  SameOutcomes(p, rp) => SameRendering(rp.listenIPs, listenIPs)

(***************************************************************************)
(* C4, amended.  The same, provided the accepted requests on one           *)
(* (IP, port) all carry the same Name and the accepted requests on one     *)
(* (IP, port, hostname key) all carry the same Backend.                    *)
(***************************************************************************)
Agreeing ==
    \A s \in IPs \X Ports : \A a, b \in AcceptedOn(s) :
        /\ a.Name = b.Name
        /\ HostnameKey(a) = HostnameKey(b) => a.Backend = b.Backend

C4_OrderIndependentAgreeing ==
    Agreeing =>
        \A p \in Orders(Len(calls)) :
            LET rp == Reordered(p)
            IN  SameOutcomes(p, rp) => SameRendering(rp.listenIPs, listenIPs)

\* Three accepted requests on one (IP, port), the first with the
\* certificate that sorts last; every order of the three gives the same
\* outcomes.
C4_Witness ==
    /\ Len(calls) = 3
    /\ Agreeing
    /\ \A i \in 1..3 : calls[i].result = "accepted"
    /\ calls[1].request.SslCertificate = "b.pem"
    /\ \E i \in 2..3 : calls[i].request.SslCertificate = "a.pem"
    /\ \A p \in Orders(3) : SameOutcomes(p, Reordered(p))

(***************************************************************************)
(* C5.  As claimed: a Render call leaves the store as it was, the order of *)
(* every certificate sequence and server sequence included.                *)
(***************************************************************************)
C5_RenderReadOnly ==
    [][RenderStep => listenIPs' = listenIPs]_vars

(***************************************************************************)
(* C6.  Cross-request consistency: a request on an (IP, port) that holds a *)
(* listener is rejected with the mode mismatch error when its mode differs *)
(* from the listener's (it never takes the fatal path, a tcp request on an *)
(* http listener included), and is rejected with the SSL mismatch error    *)
(* when its SSL usage differs from the listener's useSSL, whichever of the *)
(* two uses SSL.                                                           *)
(***************************************************************************)
C6_CrossRequestConsistency ==
    [][(AddStep /\ ListenerExists(listenIPs, hlc'.ListenIP, hlc'.ListenPort))
        => /\ ListenerAt(listenIPs, hlc').mode # hlc'.Mode
                => /\ result' = "rejected"
                   /\ ModeMismatchMessage \in Range(validationErrors')
           /\ (ListenerAt(listenIPs, hlc').useSSL /\ ~UsesSSL(hlc'))
                => /\ result' = "rejected"
                   /\ SSLMismatchMessage \in Range(validationErrors')
           /\ (~ListenerAt(listenIPs, hlc').useSSL /\ UsesSSL(hlc'))
                => /\ result' = "rejected"
                   /\ SSLMismatchMessage \in Range(validationErrors')]_vars

\* A tcp request without a certificate rejected on an http listener that
\* uses SSL: both errors, no panic.
C6_Witness ==
    /\ result = "rejected"
    /\ hlc.Mode = "tcp"
    /\ ~UsesSSL(hlc)
    /\ ListenerExists(listenIPs, hlc.ListenIP, hlc.ListenPort)
    /\ ListenerAt(listenIPs, hlc).mode = "http"
    /\ ListenerAt(listenIPs, hlc).useSSL
    /\ validationErrors = <<ModeMismatchMessage, SSLMismatchMessage>>

(***************************************************************************)
(* C7.  Mode rejection: a request whose mode is neither http nor tcp is    *)
(* rejected with the invalid mode error in every store and leaves the      *)
(* store as it was; every listener of every store has mode http or tcp.    *)
(***************************************************************************)
ListenerModesValid ==
    \A s \in Slots(listenIPs) : listenIPs[s[1]][s[2]].mode \in {"http", "tcp"}

C7_ModeRejection ==
    /\ [][(AddStep /\ hlc'.Mode \notin {"http", "tcp"})
            => /\ result' = "rejected"
               /\ listenIPs' = listenIPs
               /\ validationErrors'[1] = InvalidModeMessage(hlc'.Mode)]_vars
    /\ []ListenerModesValid

\* An ftp request rejected on an (IP, port) that holds a listener.
C7_Witness ==
    /\ result = "rejected"
    /\ hlc.Mode = "ftp"
    /\ ListenerExists(listenIPs, hlc.ListenIP, hlc.ListenPort)

(***************************************************************************)
(* C8.  SSL invariant: every listener has useSSL exactly when its          *)
(* certificate sequence is not empty, and the certificates it holds are    *)
(* those of the requests accepted on its (IP, port).                       *)
(***************************************************************************)
C8_SSLInvariant ==
    \A s \in Slots(listenIPs) :
        LET listener == listenIPs[s[1]][s[2]]
        IN  /\ listener.useSSL <=> listener.sslCertificates # <<>>
            /\ Range(listener.sslCertificates)
                = {a.SslCertificate : a \in AcceptedOn(s)} \ {""}

\* A listener that uses SSL and holds two different certificates, beside one
\* that does not use SSL.
C8_Witness ==
    /\ \E s \in Slots(listenIPs) :
        /\ listenIPs[s[1]][s[2]].useSSL
        /\ Cardinality(Range(listenIPs[s[1]][s[2]].sslCertificates)) = 2
    /\ \E s \in Slots(listenIPs) : ~listenIPs[s[1]][s[2]].useSSL

(***************************************************************************)
(* C9.  TCP single-backend invariant: the hostname map of every tcp        *)
(* listener has the one key "_", whatever Hostname its request carried;    *)
(* the keys of an http listener's hostname map are the Hostnames of the    *)
(* requests accepted on its (IP, port).                                    *)
(***************************************************************************)
C9_HostnameKeys ==
    \A s \in Slots(listenIPs) :
        LET listener == listenIPs[s[1]][s[2]]
        IN  IF listener.mode = "tcp"
            THEN DOMAIN listener.hostnameBackends = {"_"}
            ELSE DOMAIN listener.hostnameBackends
                    = {a.Hostname : a \in AcceptedOn(s)}

\* A tcp listener made by a request with Hostname a.com, beside an http
\* listener.
C9_Witness ==
    /\ \E s \in Slots(listenIPs) :
        /\ listenIPs[s[1]][s[2]].mode = "tcp"
        /\ \E a \in AcceptedOn(s) : a.Hostname = "a.com"
    /\ \E s \in Slots(listenIPs) : listenIPs[s[1]][s[2]].mode = "http"

(***************************************************************************)
(* C10.  Render is total on reachable stores: no store makes Render panic, *)
(* every tcp listener holding a backend under "_"; no Render call has      *)
(* panicked; and the empty store renders to the empty string.              *)
(***************************************************************************)
C10_RenderTotal ==
    /\ ~RenderPanics(listenIPs)
    /\ result # "renderPanic"
    /\ \A s \in Slots(listenIPs) :
        listenIPs[s[1]][s[2]].mode = "tcp"
            => "_" \in DOMAIN listenIPs[s[1]][s[2]].hostnameBackends
    /\ (result = "rendered" /\ listenIPs = EmptyMap) => Concat(config) = ""

\* A store with a tcp listener has been rendered.
C10_Witness ==
    /\ result = "rendered"
    /\ Concat(config) # ""
    /\ \E s \in Slots(listenIPs) : listenIPs[s[1]][s[2]].mode = "tcp"

(***************************************************************************)
(* C11.  Certificate dedup: the bind line of every listener that uses SSL  *)
(* carries one crt directive per distinct certificate name accepted on its *)
(* (IP, port), in ascending byte order, however often a name was added;    *)
(* and a rendered config holds as many crt directives as the listeners     *)
(* hold distinct certificate names.                                        *)
(***************************************************************************)
RECURSIVE IndexOf(_, _, _)
\* The least index from i on where sequence s holds x, Len(s) + 1 if none.
IndexOf(s, x, i) ==
    IF i > Len(s) THEN i ELSE IF s[i] = x THEN i ELSE IndexOf(s, x, i + 1)

\* The operands of a frontend's bind line: from "    bind " up to the first
\* line end.
BindLine(frontend) ==
    LET start == IndexOf(frontend, "    bind ", 1)
    IN  SubSeq(frontend, start, IndexOf(frontend, "\n", start) - 1)

RECURSIVE After(_, _)
\* The operands that follow an operand equal to key, in order.
After(pieces, key) ==
    IF Len(pieces) < 2 THEN <<>>
    ELSE IF Head(pieces) = key
    THEN <<pieces[2]>> \o After(Tail(pieces), key)
    ELSE After(Tail(pieces), key)

\* How many operands of pieces equal key.
Occurrences(pieces, key) ==
    Cardinality({i \in DOMAIN pieces : pieces[i] = key})

Ascending(names) ==
    \A i \in 1..(Len(names) - 1) : StringLess(names[i], names[i + 1])

RECURSIVE SumOver(_, _)
SumOver(f, S) ==
    IF S = {} THEN 0
    ELSE LET x == CHOOSE y \in S : TRUE IN f[x] + SumOver(f, S \ {x})

\* The number of distinct certificate names the listeners of store h hold.
DistinctCertificates(h) ==
    SumOver([s \in Slots(h) |-> Cardinality(Range(h[s[1]][s[2]].sslCertificates))],
            Slots(h))

C11_CertificateDedup ==
    /\ \A s \in Slots(listenIPs) :
        LET listener == listenIPs[s[1]][s[2]]
            crts == After(BindLine(FrontendPieces(s[1], s[2], listener)), " crt ")
        IN  listener.useSSL
                => /\ Range(crts) = {a.SslCertificate : a \in AcceptedOn(s)} \ {""}
                   /\ Ascending(crts)
    /\ result = "rendered"
            => Occurrences(config, " crt ") = DistinctCertificates(listenIPs)

\* A rendered store with a listener to which b.pem was added twice and a.pem
\* once.
C11_Witness ==
    /\ result = "rendered"
    /\ \E s \in Slots(listenIPs) :
        /\ Len(listenIPs[s[1]][s[2]].sslCertificates) = 3
        /\ Range(listenIPs[s[1]][s[2]].sslCertificates) = {"a.pem", "b.pem"}
        /\ calls[1].request.SslCertificate = "b.pem"

(***************************************************************************)
(* C12.  Output ordering: a rendered config holds every frontend stanza    *)
(* before any backend stanza; one frontend stanza per (IP, port) of the    *)
(* store, in ascending order of IP bytes and then of port number; one      *)
(* backend stanza per (IP, port, hostname key) entry, in ascending order   *)
(* of IP, port number and hostname key; and the server lines of each       *)
(* backend stanza in ascending order of server name, one per server.       *)
(***************************************************************************)
\* The indices at which pieces holds key.
Positions(pieces, key) == {i \in DOMAIN pieces : pieces[i] = key}

RECURSIVE InOrder(_)
\* A set of numbers as an ascending sequence.
InOrder(S) ==
    IF S = {} THEN <<>>
    ELSE LET least == CHOOSE x \in S : \A y \in S : x <= y
         IN  <<least>> \o InOrder(S \ {least})

\* (IP, port, hostname key) a comes before b; a slot is compared with the
\* first two components.
EntryLess(a, b) ==
    \/ StringLess(a[1], b[1])
    \/ a[1] = b[1] /\ a[2] < b[2]
    \/ a[1] = b[1] /\ a[2] = b[2] /\ Len(a) = 3 /\ StringLess(a[3], b[3])

RECURSIVE EntriesInOrder(_)
EntriesInOrder(S) ==
    IF S = {} THEN <<>>
    ELSE LET least == CHOOSE x \in S : \A y \in S \ {x} : EntryLess(x, y)
         IN  <<least>> \o EntriesInOrder(S \ {least})

\* The (IP, port, hostname key) entries of store h.
Entries(h) ==
    UNION {{<<s[1], s[2], k>> : k \in DOMAIN h[s[1]][s[2]].hostnameBackends} :
            s \in Slots(h)}

\* The IP and the port text of the bind line of each frontend stanza of
\* pieces, in order of appearance.
FrontendBinds(pieces) ==
    LET at == InOrder(Positions(pieces, "frontend "))
    IN  [k \in DOMAIN at |->
            LET bind == IndexOf(pieces, "    bind ", at[k])
            IN  <<pieces[bind + 1], pieces[bind + 3]>>]

\* The backend stanzas of pieces, in order of appearance.
BackendStanzas(pieces) ==
    LET at == InOrder(Positions(pieces, "backend "))
    IN  [k \in DOMAIN at |->
            SubSeq(pieces, at[k],
                   IF k < Len(at) THEN at[k + 1] - 1 ELSE Len(pieces))]

\* Stanza is the backend stanza of the entry e of store h.
StanzaOf(stanza, h, e) ==
    LET listener == h[e[1]][e[2]]
        backend == listener.hostnameBackends[e[3]]
        servers == After(stanza, "    server ")
    IN  /\ SubSeq(stanza, 1, 8)
            = <<"backend ", backend.Name, "\n", "    mode ", listener.mode, "\n",
                "    balance ", backend.BalanceMethod>>
        /\ Len(servers) = Len(backend.Backends)
        /\ Range(servers) = {b.Name : b \in Range(backend.Backends)}
        /\ \A i \in 1..(Len(servers) - 1) : ~StringLess(servers[i + 1], servers[i])

C12_OutputOrdering ==
    result = "rendered" =>
        LET slots == EntriesInOrder(Slots(listenIPs))
            entries == EntriesInOrder(Entries(listenIPs))
            stanzas == BackendStanzas(config)
        IN  /\ \A f \in Positions(config, "frontend ") :
                    \A b \in Positions(config, "backend ") : f < b
            /\ FrontendBinds(config)
                    = [k \in DOMAIN slots |-> <<slots[k][1], Itoa(slots[k][2])>>]
            /\ Len(stanzas) = Len(entries)
            /\ \A k \in DOMAIN stanzas : StanzaOf(stanzas[k], listenIPs, entries[k])

\* A rendered store whose one IP listens on ports 80 and 443 and whose
\* listener on port 80 routes a.com to be2 and b.com to be1, be1 listing its
\* servers out of order when added.
C12_Witness ==
    /\ result = "rendered"
    /\ Slots(listenIPs) = {<<"10.0.0.1", 80>>, <<"10.0.0.1", 443>>}
    /\ \E c \in Range(calls) :
        /\ c.result = "accepted"
        /\ c.request.Backend = PoolA
    /\ \E s \in Slots(listenIPs) :
        LET backends == listenIPs[s[1]][s[2]].hostnameBackends
        IN  /\ DOMAIN backends = {"a.com", "b.com"}
            /\ backends["a.com"].Name = "be2"
            /\ backends["b.com"].Name = "be1"

(***************************************************************************)
(* C13.  Routing rules: in a rendered config the frontend stanza of every  *)
(* http listener holds, for each hostname key in ascending order, two      *)
(* use_backend rules naming that hostname's backend, the first matching    *)
(* the hostname and the second matching hostname:port with the listener's  *)
(* port, and no default_backend rule; the frontend stanza of every tcp     *)
(* listener holds one default_backend rule naming the backend stored under *)
(* "_" and no use_backend rule.                                            *)
(***************************************************************************)
\* The frontend stanzas of pieces, in order of appearance.
FrontendStanzas(pieces) ==
    LET at == InOrder(Positions(pieces, "frontend "))
        end == IndexOf(pieces, "backend ", 1) - 1
    IN  [k \in DOMAIN at |->
            SubSeq(pieces, at[k], IF k < Len(at) THEN at[k + 1] - 1 ELSE end)]

\* The rules of a stanza that start with the operand keyword, each up to
\* the operand that ends its line.
RulesOf(stanza, keyword, lineEnd) ==
    LET at == InOrder(Positions(stanza, keyword))
    IN  [k \in DOMAIN at |-> SubSeq(stanza, at[k], IndexOf(stanza, lineEnd, at[k]))]

\* The use_backend rules the claim gives a listener whose hostname keys, in
\* order, are hostnames.
RECURSIVE ExpectedRules(_, _, _)
ExpectedRules(listener, port, hostnames) ==
    IF hostnames = <<>> THEN <<>>
    ELSE LET name == listener.hostnameBackends[Head(hostnames)].Name
         IN  << <<"    use_backend ", name, " if { hdr(host) -i ",
                  Head(hostnames), " }\n">>,
                <<"    use_backend ", name, " if { hdr(host) -i ",
                  Head(hostnames), ":", Itoa(port), " }\n">> >>
             \o ExpectedRules(listener, port, Tail(hostnames))

\* Stanza routes as the claim says for the listener of slot s of store h.
RoutesOf(stanza, h, s) ==
    LET listener == h[s[1]][s[2]]
        keys == EntriesInOrder({<<s[1], s[2], k>> :
                                    k \in DOMAIN listener.hostnameBackends})
        useBackend == RulesOf(stanza, "    use_backend ", " }\n")
        defaultBackend == RulesOf(stanza, "    default_backend ", "\n")
    IN  IF listener.mode = "http"
        THEN /\ useBackend
                    = ExpectedRules(listener, s[2], [k \in DOMAIN keys |-> keys[k][3]])
             /\ defaultBackend = <<>>
        ELSE /\ listener.mode = "tcp"
             /\ useBackend = <<>>
             /\ defaultBackend
                    = << <<"    default_backend ",
                           listener.hostnameBackends["_"].Name, "\n">> >>

C13_RoutingRules ==
    result = "rendered" =>
        LET slots == EntriesInOrder(Slots(listenIPs))
            stanzas == FrontendStanzas(config)
        IN  /\ Len(stanzas) = Len(slots)
            /\ \A k \in DOMAIN stanzas : RoutesOf(stanzas[k], listenIPs, slots[k])

\* A rendered store with a tcp listener and an http listener.
C13_Witness ==
    /\ result = "rendered"
    /\ \E s \in Slots(listenIPs) :
        /\ listenIPs[s[1]][s[2]].mode = "tcp"
        /\ listenIPs[s[1]][s[2]].hostnameBackends["_"].Name = "be1"
    /\ \E s \in Slots(listenIPs) :
        /\ listenIPs[s[1]][s[2]].mode = "http"
        /\ s[2] = 443

(***************************************************************************)
(* C14.  Repeatable render: after a Render call, and until the next        *)
(* AddListener call, Render on the store as that call left it does not     *)
(* panic and returns what that call returned, operand by operand.          *)
(***************************************************************************)
C14_RepeatableRender ==
    result = "rendered" =>
        /\ ~RenderPanics(listenIPs)
        /\ RenderPieces(listenIPs) = config

\* A rendered store that the Render call changed: PoolA was added with its
\* servers out of order, and b.pem was added before a.pem.
C14_Witness ==
    /\ result = "rendered"
    /\ \E c \in Range(calls) : c.result = "accepted" /\ c.request.Backend = PoolA
    /\ calls[1].request.SslCertificate = "b.pem"
    /\ \E s \in Slots(listenIPs) :
        listenIPs[s[1]][s[2]].sslCertificates = <<"a.pem", "b.pem">>

(***************************************************************************)
(* C15.  Last write wins, with frame: when an accepted http request names  *)
(* a Hostname that the listener at its (IP, port) already holds, the       *)
(* backend under that hostname becomes the request's Backend, the listener *)
(* keeps its hostname keys and the backend of every other key, and every   *)
(* other listener of the store is as it was.                               *)
(***************************************************************************)
\* Request r names a hostname that the listener at its (IP, port) holds.
HostnamePresent(h, r) ==
    /\ ListenerExists(h, r.ListenIP, r.ListenPort)
    /\ r.Hostname \in DOMAIN ListenerAt(h, r).hostnameBackends

C15_LastWriteWins ==
    [][(AddStep /\ result' = "accepted" /\ hlc'.Mode = "http"
            /\ HostnamePresent(listenIPs, hlc'))
        => LET before == ListenerAt(listenIPs, hlc').hostnameBackends
               after == ListenerAt(listenIPs', hlc').hostnameBackends
           IN  /\ after[hlc'.Hostname] = hlc'.Backend
               /\ DOMAIN after = DOMAIN before
               /\ \A k \in DOMAIN before \ {hlc'.Hostname} : after[k] = before[k]
               /\ Slots(listenIPs') = Slots(listenIPs)
               /\ DOMAIN listenIPs' = DOMAIN listenIPs
               /\ \A s \in Slots(listenIPs) \ {<<hlc'.ListenIP, hlc'.ListenPort>>} :
                    listenIPs'[s[1]][s[2]] = listenIPs[s[1]][s[2]]]_vars

\* a.com was added with be1, b.com was added, and a.com has been added
\* again with be2.
C15_Witness ==
    /\ Len(calls) = 3
    /\ result = "accepted"
    /\ calls[1].request = DefaultRequest
    /\ calls[2].result = "accepted"
    /\ calls[2].request.Hostname = "b.com"
    /\ hlc = [DefaultRequest EXCEPT !.Backend = PoolB]
    /\ ListenerAt(listenIPs, hlc).hostnameBackends["a.com"] = PoolB
    /\ DOMAIN ListenerAt(listenIPs, hlc).hostnameBackends = {"a.com", "b.com"}

(***************************************************************************)
(* C16.  Independent, ordered validation errors: the invalid mode check,   *)
(* and against a listener at the request's (IP, port) the mode match check *)
(* and the SSL usage match check, each add their error whatever the others *)
(* found, so the request's validationErrors hold one error per violated    *)
(* check in the order invalid mode, mode mismatch, SSL mismatch; the       *)
(* request is rejected exactly when that list is not empty, and passes     *)
(* validation (it is merged, or it is a duplicate tcp request and takes    *)
(* the fatal path) exactly when the list is empty.                         *)
(***************************************************************************)
\* The errors the claim gives request r on store h.
ExpectedErrors(h, r) ==
    (IF r.Mode \notin {"http", "tcp"} THEN <<InvalidModeMessage(r.Mode)>> ELSE <<>>)
    \o (IF ListenerExists(h, r.ListenIP, r.ListenPort)
            /\ ListenerAt(h, r).mode # r.Mode
        THEN <<ModeMismatchMessage>> ELSE <<>>)
    \o (IF ListenerExists(h, r.ListenIP, r.ListenPort)
            /\ ListenerAt(h, r).useSSL # UsesSSL(r)
        THEN <<SSLMismatchMessage>> ELSE <<>>)

C16_OrderedValidationErrors ==
    [][AddStep
        => /\ validationErrors' = ExpectedErrors(listenIPs, hlc')
           /\ result' = "rejected" <=> validationErrors' # <<>>
           /\ result' \in {"accepted", "fatal"} <=> validationErrors' = <<>>]_vars

\* A request rejected with all three errors.
C16_Witness ==
    /\ result = "rejected"
    /\ validationErrors
        = <<InvalidModeMessage(hlc.Mode), ModeMismatchMessage, SSLMismatchMessage>>

(***************************************************************************)
(* C17.  Backend names are not checked: how an AddListener call ends, and  *)
(* the errors it reports, do not depend on the request's Backend, so a     *)
(* request is accepted also when its backend carries the name of a         *)
(* different backend in the store; and a rendered config holds, for every  *)
(* backend name, one backend stanza per (IP, port, hostname key) entry     *)
(* whose backend has that name, two stanzas of one name included.          *)
(***************************************************************************)
\* The entries of store h whose backend is named name.
EntriesNamed(h, name) ==
    {e \in Entries(h) : h[e[1]][e[2]].hostnameBackends[e[3]].Name = name}

C17_BackendNamesUnchecked ==
    /\ [][AddStep
            => \A b \in BackendPools :
                LET other == AddListenerResult(listenIPs, [hlc' EXCEPT !.Backend = b])
                IN  /\ other.result = result'
                    /\ other.validationErrors = validationErrors']_vars
    /\ [](result = "rendered"
            => \A b \in BackendPools :
                Cardinality({i \in Positions(config, "backend ") :
                                config[i + 1] = b.Name})
                    = Cardinality(EntriesNamed(listenIPs, b.Name)))

\* A rendered store in which a.com routes to PoolC and b.com to PoolA, both
\* named be1: the config holds two stanzas "backend be1".
C17_Witness ==
    /\ result = "rendered"
    /\ \E e, f \in EntriesNamed(listenIPs, "be1") :
        /\ listenIPs[e[1]][e[2]].hostnameBackends[e[3]].BalanceMethod
            = PoolC.BalanceMethod
        /\ listenIPs[e[1]][e[2]].hostnameBackends[e[3]].UseSSL
        /\ ~listenIPs[f[1]][f[2]].hostnameBackends[f[3]].UseSSL
    /\ Cardinality({i \in Positions(config, "backend ") : config[i + 1] = "be1"}) = 2

(***************************************************************************)
(* C18.  Single-writer requirement.  With callers that are not serialized, *)
(* two tcp calls on one (IP, port) that are both past the existence check  *)
(* of line 75 before either has inserted its listener never reach the      *)
(* fatal path; when both have returned, both were accepted, and if their   *)
(* requests differ in Name or Backend the store has lost the Name or the   *)
(* Backend of one of them.  With serialized callers no two tcp calls on    *)
(* one (IP, port) are both accepted and no two calls are past line 75      *)
(* together.                                                               *)
(***************************************************************************)
\* Two tcp calls on one (IP, port) have both been accepted.
TcpAcceptedTwice ==
    \E i, j \in DOMAIN calls :
        /\ i < j
        /\ calls[i].result = "accepted" /\ calls[j].result = "accepted"
        /\ calls[i].request.Mode = "tcp" /\ calls[j].request.Mode = "tcp"
        /\ calls[i].request.ListenIP = calls[j].request.ListenIP
        /\ calls[i].request.ListenPort = calls[j].request.ListenPort

\* Store h does not hold what request r asked for.
Lost(h, r) ==
    \/ ~ListenerExists(h, r.ListenIP, r.ListenPort)
    \/ ListenerAt(h, r).name # r.Name
    \/ HostnameKey(r) \notin DOMAIN ListenerAt(h, r).hostnameBackends
    \/ ListenerAt(h, r).hostnameBackends[HostnameKey(r)] # r.Backend

Returned(g) ==
    /\ goroutines[g].pc = "done"
    /\ \E c \in Range(calls) :
        c.request = goroutines[g].hlc /\ c.result = "accepted"

C18_SingleWriter ==
    /\ \A pair \in schedule.raced :
        /\ \A g \in pair :
            /\ goroutines[g].hlc.Mode = "tcp" => goroutines[g].pc # "duplicate"
            /\ goroutines[g].pc = "done" /\ Running => Returned(g)
        /\ \A g, o \in pair :
            (/\ Running
             /\ goroutines[g].pc = "done" /\ goroutines[o].pc = "done"
             /\ \/ goroutines[g].hlc.Name # goroutines[o].hlc.Name
                \/ goroutines[g].hlc.Backend # goroutines[o].hlc.Backend)
                => Lost(listenIPs, goroutines[g].hlc) \/ Lost(listenIPs, goroutines[o].hlc)
    /\ schedule.serialized => ~TcpAcceptedTwice /\ schedule.raced = {}

\* Two tcp calls that raced have both returned: the listener has the Name
\* of one request and the Backend of the other.
C18_Witness ==
    /\ ~schedule.serialized
    /\ TcpAcceptedTwice
    /\ Running
    /\ \E pair \in schedule.raced : \E g, o \in pair :
        /\ goroutines[g].pc = "done" /\ goroutines[o].pc = "done"
        /\ goroutines[g].hlc.Name # goroutines[o].hlc.Name
        /\ ListenerAt(listenIPs, goroutines[g].hlc).name = goroutines[g].hlc.Name
        /\ ListenerAt(listenIPs, goroutines[g].hlc).hostnameBackends["_"]
            = goroutines[o].hlc.Backend
        /\ goroutines[g].hlc.Backend # goroutines[o].hlc.Backend

(***************************************************************************)
(* C19.  Listener identity is fixed at creation: the name, mode and useSSL *)
(* of every listener are those of the first request accepted on its        *)
(* (IP, port); no AddListener or Render call removes a listener or changes *)
(* its name, mode or useSSL; an accepted request on an existing listener   *)
(* whose Name differs from the listener's changes that listener only by    *)
(* appending its certificate, if it has one, and by setting the backend of *)
(* its hostname key; and each frontend stanza of a rendered config carries *)
(* the Name of the first request accepted on its (IP, port).               *)
(***************************************************************************)
\* The first request accepted on the (IP, port) of slot s.
FirstAccepted(s) ==
    LET at == {i \in DOMAIN calls :
                /\ calls[i].result = "accepted"
                /\ calls[i].request.ListenIP = s[1]
                /\ calls[i].request.ListenPort = s[2]}
    IN  calls[CHOOSE i \in at : \A j \in at : i <= j].request

IdentityFromFirst ==
    /\ \A s \in Slots(listenIPs) :
        LET listener == listenIPs[s[1]][s[2]]
        IN  /\ AcceptedOn(s) # {}
            /\ listener.name = FirstAccepted(s).Name
            /\ listener.mode = FirstAccepted(s).Mode
            /\ listener.useSSL = UsesSSL(FirstAccepted(s))
    /\ result = "rendered" =>
        LET slots == EntriesInOrder(Slots(listenIPs))
            stanzas == FrontendStanzas(config)
        IN  /\ Len(stanzas) = Len(slots)
            /\ \A k \in DOMAIN stanzas :
                SubSeq(stanzas[k], 1, 3)
                    = <<"frontend ", FirstAccepted(slots[k]).Name, "\n">>

C19_ListenerIdentity ==
    /\ [][/\ \A s \in Slots(listenIPs) :
                /\ s \in Slots(listenIPs')
                /\ listenIPs'[s[1]][s[2]].name = listenIPs[s[1]][s[2]].name
                /\ listenIPs'[s[1]][s[2]].mode = listenIPs[s[1]][s[2]].mode
                /\ listenIPs'[s[1]][s[2]].useSSL = listenIPs[s[1]][s[2]].useSSL
           /\ (/\ AddStep
               /\ result' = "accepted"
               /\ ListenerExists(listenIPs, hlc'.ListenIP, hlc'.ListenPort)
               /\ hlc'.Name # ListenerAt(listenIPs, hlc').name)
                => ListenerAt(listenIPs', hlc')
                    = [ListenerAt(listenIPs, hlc') EXCEPT
                        !.sslCertificates =
                            IF UsesSSL(hlc') THEN Append(@, hlc'.SslCertificate)
                                             ELSE @,
                        !.hostnameBackends =
                            (HostnameKey(hlc') :> hlc'.Backend) @@ @]]_vars
    /\ []IdentityFromFirst

\* The listener named web has accepted a request named api, and the store
\* has been rendered.
C19_Witness ==
    /\ result = "rendered"
    /\ \E s \in Slots(listenIPs) :
        /\ listenIPs[s[1]][s[2]].name = "web"
        /\ \E a \in AcceptedOn(s) : a.Name = "api"
    /\ Occurrences(config, "frontend ") = 1
    /\ config[2] = "web"

(***************************************************************************)
(* C20.  Exact fatal condition: an AddListener call takes the fatal path   *)
(* exactly when its request has mode tcp, a listener with mode tcp exists  *)
(* at its (IP, port) and the request's SSL usage equals the listener's     *)
(* useSSL; a call that takes the fatal path reports no validation error    *)
(* and leaves the store as it was before the call.                         *)
(***************************************************************************)
C20_ExactFatalCondition ==
    [][AddStep
        => /\ result' = "fatal"
                <=> /\ TcpOnTcp(listenIPs, hlc')
                    /\ ListenerAt(listenIPs, hlc').useSSL = UsesSSL(hlc')
           /\ result' = "fatal"
                => /\ listenIPs' = listenIPs
                   /\ validationErrors' = <<>>]_vars

\* A tcp request with a certificate has panicked on a tcp listener that
\* uses SSL; the listener does not hold the request's certificate.
C20_Witness ==
    /\ result = "fatal"
    /\ UsesSSL(hlc)
    /\ ListenerAt(listenIPs, hlc).useSSL
    /\ hlc.SslCertificate \notin Range(ListenerAt(listenIPs, hlc).sslCertificates)

====
